---- MODULE Spec2Model ----
(***************************************************************************)
(* Model of the authentication and session-lifecycle subsystem of the POS  *)
(* system: the browser client's axios instance with its request and        *)
(* response interceptors (frontend/src/services/api.js), the AuthContext   *)
(* provider (login, logout, refreshTokens, fetchUserProfile), the server's *)
(* /api/auth/login and /api/auth/refresh handlers, the authenticate        *)
(* middleware with its key resolver, the requireRole and requireAnyRole    *)
(* gates, the routes of the Express app with the product table and the     *)
(* transactions their handlers write, and the CartProvider's cart.         *)
(*                                                                         *)
(* Tokens are numbers: generation g of the issuer stands for the access,   *)
(* ID and refresh token minted by the g-th successful authentication; 0    *)
(* stands for `undefined' (a key JSON.stringify drops).                    *)
(***************************************************************************)
EXTENDS Integers, Sequences, FiniteSets, TLC

\* ------------------------------------------------------------------ bounds
\* number of outbound calls one page life can issue through the api client
NReq == 2
\* number of token generations the issuer mints
MaxTok == 3
\* saturation value of the per-call counters nRefresh and nSend
MaxCount == 3

Calls == 1..NReq

\* ------------------------------------------------------------------ state
VARIABLES
    API_URL,      \* path prefix of the configured base URL (api.js: API_URL)
    store,        \* localStorage item 'tokens'
    ctxTokens,    \* AuthProvider's React state `tokens'
    defaultAuth,  \* api.defaults.headers.common['Authorization'] (0: unset)
    req,          \* the outbound calls of this page life
    navPending,   \* window.location.href was assigned, page not yet unloaded
    issued,       \* last token generation minted by the issuer
    srv,          \* the server-side request being handled
    products,     \* the product table (DynamoDB, PRODUCTS_TABLE)
    gate,         \* the last two evaluations of an authorization gate
    jwks,         \* the key resolver: keys cached, key ids looked for in vain
    cart          \* CartProvider's state `cart' and the last operation on it

clientVars == <<API_URL, store, ctxTokens, defaultAuth, req, navPending, issued>>
vars == <<API_URL, store, ctxTokens, defaultAuth, req, navPending, issued, srv,
          products, gate, jwks, cart>>

\* ------------------------------------------------------------ token triples
NoTokens == [present |-> FALSE, accessToken |-> 0, idToken |-> 0, refreshToken |-> 0]

Triple(a, i, r) == [present |-> TRUE, accessToken |-> a, idToken |-> i, refreshToken |-> r]

\* a persisted item is a full triple when all three tokens are defined
FullTriple(t) == t.present /\ t.accessToken # 0 /\ t.idToken # 0 /\ t.refreshToken # 0

\* ---------------------------------------------------------------- routing
\* URLs are sequences of path segments below the host.
AuthMount == <<"api", "auth">>

DocumentedBase == << >>

PrefixedBase == <<"api">>

LoginRoute == AuthMount \o <<"login">>

RefreshRoute == AuthMount \o <<"refresh">>

MeRoute == AuthMount \o <<"me">>

\* the URL the response interceptor posts its refresh to
InterceptorRefreshUrl == API_URL \o <<"auth", "refresh">>

\* the URLs AuthContext calls through the api instance (baseURL + path)
CtxUrl(kind) ==
    CASE kind = "login"   -> API_URL \o <<"auth", "login">>
      [] kind = "refresh" -> API_URL \o <<"auth", "refresh">>
      [] kind = "profile" -> API_URL \o <<"auth", "me">>
      [] OTHER            -> <<"api", "resource">>

RouteOf(kind) ==
    CASE kind = "login"   -> LoginRoute
      [] kind = "refresh" -> RefreshRoute
      [] kind = "profile" -> MeRoute
      [] OTHER            -> <<"api", "resource">>

\* does the call reach the handler it is meant for
Routed(kind) == CtxUrl(kind) = RouteOf(kind)

\* --------------------------------------------------------------- the server
\* POST /login: the triple of the authentication result
LoginResponse(authResult) ==
    Triple(authResult.AccessToken, authResult.IdToken, authResult.RefreshToken)

\* POST /refresh: idToken, accessToken (and expiresIn) of the authentication
\* result; its RefreshToken, if the issuer rotated it, is not copied
RefreshResponse(authResult) ==
    [accessToken |-> authResult.AccessToken, idToken |-> authResult.IdToken,
     refreshToken |-> 0]

\* the issuer's result for generation g; rot: it rotates the refresh token
AuthResult(g, rot) ==
    [AccessToken |-> g, IdToken |-> g, RefreshToken |-> IF rot THEN g ELSE 0]

\* ------------------------------------------------- the server's middleware
\* key identifiers a token header can name (0: the header has no kid)
MaxKid == 2

KeyIds == 0..MaxKid

\* the key identifiers published in the issuer's key set
KnownKids == {1}

Algorithms == {"RS256", "HS256", "none"}

\* jwt.verify's option algorithms: ['RS256']
AllowedAlgorithms == {"RS256"}

\* the values of the claim custom:role
Roles == {"admin", "manager", "cashier"}

\* a token without the claim custom:role (userRole is undefined)
NoRole == ""

\* the values of the claim sub, and of a cashierId in a request body
Subjects == {"u1", "u2"}

\* no sub claim, no cashierId in the body
NoSub == ""

\* the Authorization header as authHeader.split(' ') sees it; NoHeader: the
\* request has none
NoHeader == << >>

AuthHeaders ==
    {NoHeader, <<"Bearer">>, <<"Basic", "token">>, <<"Bearer", "token", "extra">>,
     <<"Bearer", "">>, <<"Bearer", "token">>}

\* authenticate's checks of the header: "none" (no header), "malformed" (not
\* two parts, or the first is not Bearer) or "bearer"
HeaderClass_LengthOnly(authHeader) ==
    IF authHeader = NoHeader THEN "none"
    ELSE IF Len(authHeader) # 2 THEN "malformed"
    ELSE "bearer"

HeaderClass(authHeader) ==
    IF authHeader = NoHeader THEN "none"
    ELSE IF Len(authHeader) # 2 \/ authHeader[1] # "Bearer" THEN "malformed"
    ELSE "bearer"

\* what jwt.decode and jwt.verify can find in the second part of the header.
\* NoToken: jwt.decode returns null
NoToken == [decodable |-> FALSE, alg |-> "none", kid |-> 0, sigValid |-> FALSE,
            expired |-> FALSE, issMatch |-> FALSE, role |-> NoRole,
            sub |-> NoSub]

\* issMatch: the claims iss and aud are those of the configured user pool
Tokens ==
    {NoToken} \cup
    [decodable : {TRUE}, alg : Algorithms, kid : KeyIds, sigValid : BOOLEAN,
     expired : BOOLEAN, issMatch : BOOLEAN, role : Roles \cup {NoRole},
     sub : Subjects]

\* the tokens a header can carry: an empty or missing second part decodes to
\* nothing
TokensOf(authHeader) ==
    IF HeaderClass(authHeader) = "bearer" /\ authHeader[2] # "" THEN Tokens
    ELSE {NoToken}

\* the routes of the application
ProductRoutes ==
    {"GET /api/products", "POST /api/products", "PUT /api/products/:id",
     "DELETE /api/products/:id"}

TransactionRoutes == {"GET /api/transactions", "POST /api/transactions"}

AuthRoutes ==
    {"POST /api/auth/login", "POST /api/auth/change-password",
     "POST /api/auth/users", "GET /api/auth/me"}

Routes == ProductRoutes \cup TransactionRoutes \cup AuthRoutes

\* app.use(path, authMiddleware.authenticate, router): the mounts that run
\* authenticate before the router
MountAuthenticates(route) == route \in ProductRoutes \cup TransactionRoutes

\* the routes the route files declare `@access Private'
Private(route) == route # "POST /api/auth/login"

\* the role of the route's requireRole middleware; NoRole: the route has none
RequiredRole_DeleteOpen(route) ==
    IF route \in {"POST /api/products", "PUT /api/products/:id",
                  "POST /api/auth/users"}
    THEN "admin" ELSE NoRole

RequiredRole(route) ==
    IF route \in {"POST /api/products", "PUT /api/products/:id",
                  "DELETE /api/products/:id", "POST /api/auth/users"}
    THEN "admin" ELSE NoRole

\* the routes whose handler reads req.headers.authorization.split(' ')[1]
ReadsHeader(route) ==
    route \in {"POST /api/auth/change-password", "GET /api/auth/me"}

\* the routes whose handler first checks validationResult(req)
Validates(route) ==
    route \in {"POST /api/auth/login", "POST /api/auth/change-password",
               "POST /api/auth/users", "POST /api/products",
               "PUT /api/products/:id", "POST /api/transactions"}

\* the product table: one item per id
ProductIds == {"p1"}
ProductData == {"v1", "v2"}
NoProduct == "absent"

IdleSrv == [pc |-> "idle", route |-> "", authHeader |-> NoHeader,
            header |-> "none", decodable |-> FALSE, alg |-> "none",
            kid |-> 0, sigValid |-> FALSE, expired |-> FALSE,
            issMatch |-> FALSE, role |-> NoRole, sub |-> NoSub,
            lookups |-> 0, fetched |-> FALSE, refetched |-> FALSE,
            status |-> 0, message |-> "", by |-> "",
            userSet |-> FALSE, nextCalled |-> FALSE, ran |-> FALSE,
            bodyCashierId |-> NoSub, putCashierId |-> NoSub]

\* req.user: absent until authenticate sets it to the verified claims
NoUser == [present |-> FALSE, role |-> NoRole]
User(role) == [present |-> TRUE, role |-> role]
ReqUser(s) == IF s.userSet THEN User(s.role) ELSE NoUser

\* a gate's decision: the response it sends, or Pass when it calls next()
Pass == [status |-> 0, message |-> ""]

requireRole_AnyRole(requiredRole, user) ==
    IF ~user.present
    THEN [status |-> 401, message |-> "Authentication required"]
    ELSE IF user.role = NoRole
    THEN [status |-> 403, message |-> "Insufficient permissions"]
    ELSE Pass

requireRole_Unauthorized(requiredRole, user) ==
    IF ~user.present \/ user.role = NoRole \/ user.role # requiredRole
    THEN [status |-> 401, message |-> "Authentication required"]
    ELSE Pass

requireRole_Cached(requiredRole, user) ==
    IF gate.cur.kind = "requireRole" /\ gate.cur.user = user
    THEN [status |-> gate.cur.status, message |-> ""]
    ELSE IF ~user.present
    THEN [status |-> 401, message |-> "Authentication required"]
    ELSE IF user.role = NoRole \/ user.role # requiredRole
    THEN [status |-> 403, message |-> "Insufficient permissions"]
    ELSE Pass

requireRole(requiredRole, user) ==
    IF ~user.present
    THEN [status |-> 401, message |-> "Authentication required"]
    ELSE IF user.role = NoRole \/ user.role # requiredRole
    THEN [status |-> 403, message |-> "Insufficient permissions"]
    ELSE Pass

requireAnyRole(roles, user) ==
    IF ~user.present
    THEN [status |-> 401, message |-> "Authentication required"]
    ELSE IF user.role = NoRole \/ user.role \notin roles
    THEN [status |-> 403, message |-> "Insufficient permissions"]
    ELSE Pass

\* one evaluation of a gate: the middleware, its requirement, req.user and
\* the status it answered (0: it called next())
NoEval == [kind |-> "none", roles |-> {}, user |-> NoUser, status |-> 0]

\* errorHandler: the status of an error passed to next(error) whose code it
\* has no case for (statusCode 0: the error has none, as a TypeError)
ErrorStatus(statusCode) == IF statusCode # 0 THEN statusCode ELSE 500

\* jsonwebtoken's verify with { algorithms: ['RS256'] }: the name of the error
\* it throws, or "ok"
JwtVerify(alg, sigValid, expired) ==
    IF alg \notin AllowedAlgorithms THEN "JsonWebTokenError"
    ELSE IF ~sigValid THEN "JsonWebTokenError"
    ELSE IF expired THEN "TokenExpiredError"
    ELSE "ok"

\* authenticate's catch block: the message of the 401 it answers
CatchMessage(errorName) ==
    CASE errorName = "TokenExpiredError" -> "Token expired"
      [] errorName = "JsonWebTokenError" -> "Invalid token"
      [] OTHER                           -> "Authentication failed"

\* ------------------------------------------------------------- the client
\* no operation on the cart yet
NoOp == [op |-> "none", productId |-> "", quantity |-> 0]

NoCall == [kind |-> "none", st |-> "idle", retry |-> FALSE, hdr |-> 0,
           closure |-> NoTokens, snap |-> NoTokens,
           errKind |-> "none", errStatus |-> 0,
           nRefresh |-> 0, nSend |-> 0, rejTok |-> 0,
           leader |-> 0, rres |-> "none", obs |-> 0,
           storeAtSend |-> NoTokens, rotated |-> FALSE, minted |-> 0]

Inc(n) == IF n < MaxCount THEN n + 1 ELSE MaxCount

\* mutant: the request interceptor leaves the configured header in place
RequestInterceptor_ConfigOnly(s, cfgHdr) == cfgHdr

\* request interceptor: the Authorization header of a call sent with config
\* header cfgHdr while the store holds s
RequestInterceptor(s, cfgHdr) ==
    IF s.present /\ s.accessToken # 0 THEN s.accessToken ELSE cfgHdr

\* calls whose interceptor-issued refresh (axios.post) is in flight
InterceptorRefreshing == {q \in Calls : req[q].st = "refreshing"}

\* refreshTokens calls (api.post('/auth/refresh')) in flight
CtxRefreshing == {q \in Calls : req[q].kind = "refresh" /\ req[q].st = "sent"}

MinOf(S) == CHOOSE x \in S : \A y \in S : x <= y

\* mutant: the catch block leaves the stored tokens in place
ClearedStore_Kept(s) == s

\* the response interceptor's catch block: localStorage.removeItem('tokens')
ClearedStore(s) == NoTokens

\* AuthContext.logout
LogoutEffect ==
    /\ store' = NoTokens
    /\ ctxTokens' = NoTokens
    /\ defaultAuth' = 0

\* mutant: the new tokens are built from the refresh response alone
NewTokens_ResponseOnly(tokens, data) ==
    [present |-> TRUE, accessToken |-> data.accessToken,
     idToken |-> data.idToken, refreshToken |-> data.refreshToken]

\* the tokens the response interceptor and refreshTokens write after a
\* successful refresh: the snapshot with accessToken and idToken replaced
NewTokens(tokens, data) ==
    [tokens EXCEPT !.present = TRUE,
                   !.accessToken = data.accessToken,
                   !.idToken = data.idToken]

Init ==
    /\ API_URL \in {DocumentedBase, PrefixedBase}
    /\ issued = 1
    /\ navPending = FALSE
    /\ srv = IdleSrv
    /\ products = [id \in ProductIds |-> NoProduct]
    /\ gate = [cur |-> NoEval, prev |-> NoEval]
    /\ jwks = [cache |-> {}, missed |-> {}]
    /\ cart = [items |-> << >>, last |-> NoOp]
    /\ \E s \in {NoTokens, Triple(1, 1, 1)} :
        /\ store = s
        /\ ctxTokens = s
        /\ defaultAuth = s.accessToken
        /\ req = [r \in Calls |->
                    IF r = 1 /\ s.present
                    THEN [NoCall EXCEPT !.kind = "profile", !.st = "sent",
                                        !.hdr = RequestInterceptor(s, s.accessToken),
                                        !.nSend = 1, !.storeAtSend = s]
                    ELSE NoCall]

\* the statuses the server can answer a call of this kind with (200: success)
Statuses(kind) ==
    IF kind = "api" THEN {200, 401, 500}
    ELSE IF Routed(kind) THEN {200, 401, 500} ELSE {404}

\* the statuses the interceptor's own refresh call can fail with
RefreshFailStatuses ==
    IF InterceptorRefreshUrl = RefreshRoute THEN {401, 500} ELSE {404}

\* mutant: the handler refreshes on every 401, retried or not
ShouldRefresh_IgnoringRetry(status, retry) == status = 401

\* response interceptor, line 72: refresh on a 401 of a call not yet retried
ShouldRefresh(status, retry) == status = 401 /\ ~retry

\* AuthContext's catch blocks: does the caller of a rejected call log out
CallerLogsOut(kind, status) ==
    CASE kind = "refresh" -> TRUE
      [] kind = "profile" -> status \in {401, 403}
      [] OTHER            -> FALSE

\* a user action or an effect issues a call through the api instance
Send(r, kind) ==
    /\ req[r].kind = "none"
    /\ \A q \in Calls : q < r => req[q].kind # "none"
    /\ kind = "refresh" => ctxTokens.refreshToken # 0
    /\ req' = [req EXCEPT ![r] =
                 [NoCall EXCEPT !.kind = kind, !.st = "sent",
                                !.hdr = RequestInterceptor(store, defaultAuth),
                                !.closure = IF kind = "refresh" THEN ctxTokens ELSE NoTokens,
                                !.nSend = 1,
                                !.storeAtSend = store]]
    /\ UNCHANGED <<API_URL, store, ctxTokens, defaultAuth, navPending, issued, srv, products, gate, jwks, cart>>

\* a call is answered 2xx: the response interceptor passes the response on and
\* the caller's continuation runs (login and refreshTokens store the tokens)
ResponseOk(r, rot) ==
    /\ req[r].st = "sent"
    /\ 200 \in Statuses(req[r].kind)
    /\ req[r].kind \in {"login", "refresh"} => issued < MaxTok
    /\ rot => req[r].kind = "refresh"
    /\ LET k == req[r].kind
           g == issued + 1
           t == IF k = "login" THEN LoginResponse(AuthResult(g, TRUE))
                ELSE NewTokens(req[r].closure, RefreshResponse(AuthResult(g, rot)))
       IN  /\ req' = [req EXCEPT ![r].st = "resolved",
                                 ![r].rotated = (k = "refresh" /\ rot),
                                 ![r].minted = IF k \in {"login", "refresh"} THEN g ELSE 0]
           /\ IF k \in {"login", "refresh"}
              THEN /\ store' = t
                   /\ ctxTokens' = t
                   /\ defaultAuth' = t.accessToken
                   /\ issued' = g
              ELSE UNCHANGED <<store, ctxTokens, defaultAuth, issued>>
    /\ UNCHANGED <<API_URL, navPending, srv, products, gate, jwks, cart>>

\* mutant: the error handler refreshes without looking at the store
ResponseError_RefreshWithoutStore(r, status) ==
    /\ req[r].st = "sent"
    /\ status \in Statuses(req[r].kind) \ {200}
    /\ IF ShouldRefresh(status, req[r].retry)
       THEN /\ req' = [req EXCEPT
                  ![r].retry = TRUE,
                  ![r].snap = store,
                  ![r].st = "refreshing",
                  ![r].nRefresh = Inc(req[r].nRefresh),
                  ![r].rejTok = req[r].hdr,
                  ![r].leader = IF InterceptorRefreshing = {} THEN r
                                ELSE req[MinOf(InterceptorRefreshing)].leader]
            /\ UNCHANGED <<store, ctxTokens, defaultAuth>>
       ELSE /\ req' = [req EXCEPT
                  ![r].retry = (req[r].retry \/ ShouldRefresh(status, req[r].retry)),
                  ![r].st = "rejected",
                  ![r].errKind = "original",
                  ![r].errStatus = status]
            /\ IF CallerLogsOut(req[r].kind, status)
               THEN LogoutEffect
               ELSE UNCHANGED <<store, ctxTokens, defaultAuth>>
    /\ UNCHANGED <<API_URL, navPending, issued, srv, products, gate, jwks, cart>>

\* a call is answered with an error status: the response interceptor's error
\* handler up to its first await, or up to the rejection of the call
ResponseError(r, status) ==
    /\ req[r].st = "sent"
    /\ status \in Statuses(req[r].kind) \ {200}
    /\ IF ShouldRefresh(status, req[r].retry) /\ store.present
       THEN /\ req' = [req EXCEPT
                  ![r].retry = TRUE,
                  ![r].snap = store,
                  ![r].st = "refreshing",
                  ![r].nRefresh = Inc(req[r].nRefresh),
                  ![r].rejTok = req[r].hdr,
                  ![r].leader = IF InterceptorRefreshing = {} THEN r
                                ELSE req[MinOf(InterceptorRefreshing)].leader]
            /\ UNCHANGED <<store, ctxTokens, defaultAuth>>
       ELSE /\ req' = [req EXCEPT
                  ![r].retry = (req[r].retry \/ ShouldRefresh(status, req[r].retry)),
                  ![r].st = "rejected",
                  ![r].errKind = "original",
                  ![r].errStatus = status]
            /\ IF CallerLogsOut(req[r].kind, status)
               THEN LogoutEffect
               ELSE UNCHANGED <<store, ctxTokens, defaultAuth>>
    /\ UNCHANGED <<API_URL, navPending, issued, srv, products, gate, jwks, cart>>

\* the interceptor's refresh call succeeds: the tokens are written and the
\* original call is re-issued through the api instance
RefreshSuccess(r, rot) ==
    /\ req[r].st = "refreshing"
    /\ InterceptorRefreshUrl = RefreshRoute
    /\ issued < MaxTok
    /\ LET newTokens == NewTokens(req[r].snap,
                                  RefreshResponse(AuthResult(issued + 1, rot)))
       IN  /\ store' = newTokens
           /\ req' = [req EXCEPT
                  ![r].st = "sent",
                  ![r].hdr = RequestInterceptor(newTokens, newTokens.accessToken),
                  ![r].storeAtSend = newTokens,
                  ![r].nSend = Inc(req[r].nSend),
                  ![r].rres = "ok",
                  ![r].rotated = rot,
                  ![r].obs = newTokens.accessToken]
    /\ issued' = issued + 1
    /\ UNCHANGED <<API_URL, ctxTokens, defaultAuth, navPending, srv, products, gate, jwks, cart>>

\* the interceptor's refresh call fails: the catch block clears the store,
\* assigns window.location.href and rejects with the refresh error
RefreshFail(r, status) ==
    /\ req[r].st = "refreshing"
    /\ status \in RefreshFailStatuses
    /\ req' = [req EXCEPT
           ![r].st = "rejected",
           ![r].errKind = "refresh",
           ![r].errStatus = status,
           ![r].rres = "fail"]
    /\ navPending' = TRUE
    /\ IF CallerLogsOut(req[r].kind, status)
       THEN LogoutEffect
       ELSE /\ store' = ClearedStore(store)
            /\ UNCHANGED <<ctxTokens, defaultAuth>>
    /\ UNCHANGED <<API_URL, issued, srv, products, gate, jwks, cart>>

\* the user logs out
Logout ==
    /\ LogoutEffect
    /\ UNCHANGED <<API_URL, req, navPending, issued, srv, products, gate, jwks, cart>>

\* the navigation assigned by a failed refresh unloads the page: every call is
\* abandoned, and the new page's AuthProvider mounts (loadTokens)
PageReload ==
    /\ navPending
    /\ navPending' = FALSE
    /\ ctxTokens' = store
    /\ defaultAuth' = store.accessToken
    /\ req' = [r \in Calls |->
                 IF r = 1 /\ store.present
                 THEN [NoCall EXCEPT !.kind = "profile", !.st = "sent",
                                     !.hdr = RequestInterceptor(store, store.accessToken),
                                     !.nSend = 1, !.storeAtSend = store]
                 ELSE NoCall]
    /\ UNCHANGED <<API_URL, store, issued, srv, products, gate, jwks, cart>>

Next ==
    \/ \E r \in Calls, k \in {"api", "login", "refresh"} : Send(r, k)
    \/ \E r \in Calls, rot \in BOOLEAN : ResponseOk(r, rot)
    \/ \E r \in Calls, status \in {401, 404, 500} : ResponseError(r, status)
    \/ \E r \in Calls, rot \in BOOLEAN : RefreshSuccess(r, rot)
    \/ \E r \in Calls, status \in {401, 404, 500} : RefreshFail(r, status)
    \/ Logout
    \/ PageReload

Spec == Init /\ [][Next]_vars

\* ------------------------------------------------------ the server's actions
\* client.getSigningKey(kid) of the jwksClient made with a jwksUri and no other
\* option: a key it holds for the kid is returned, otherwise the key set is
\* fetched
FetchesKeySet(j, kid) == kid \notin j.cache

\* the resolver after the lookup: a key found is kept under its kid, a kid not
\* found leaves nothing behind. missed records the unknown kids a fetch was
\* made for
KeyLookup(j, kid, found) ==
    [cache  |-> IF found THEN j.cache \cup {kid} ELSE j.cache,
     missed |-> IF FetchesKeySet(j, kid) /\ kid \notin KnownKids
                THEN j.missed \cup {kid} ELSE j.missed]

\* POST /api/transactions: the transaction handed to createTransaction
TransactionOf_BodyWins(body, user) ==
    IF body.cashierId # NoSub THEN body ELSE [body EXCEPT !.cashierId = user.sub]

TransactionOf(body, user) == [body EXCEPT !.cashierId = user.sub]

\* the request as the server receives it
Incoming(route, authHeader, token) ==
    [IdleSrv EXCEPT !.route = route, !.authHeader = authHeader,
                    !.header = HeaderClass(authHeader),
                    !.decodable = token.decodable, !.alg = token.alg,
                    !.kid = token.kid, !.sigValid = token.sigValid,
                    !.expired = token.expired, !.issMatch = token.issMatch,
                    !.role = token.role, !.sub = token.sub]

\* authenticate, from the request's arrival at a mount that runs it to its
\* first await (getSigningKey) or to the response of a request rejected before
AuthenticateStart(route, authHeader, token) ==
    /\ srv.pc = "idle"
    /\ MountAuthenticates(route)
    /\ token \in TokensOf(authHeader)
    /\ LET q == Incoming(route, authHeader, token)
       IN  srv' =
             IF q.header = "none"
             THEN [q EXCEPT !.pc = "done", !.status = 401, !.by = "authenticate",
                            !.message = "No authorization header provided"]
             ELSE IF q.header = "malformed"
             THEN [q EXCEPT !.pc = "done", !.status = 401, !.by = "authenticate",
                            !.message = "Authorization header format must be Bearer token"]
             ELSE IF ~q.decodable
             THEN [q EXCEPT !.pc = "done", !.status = 401, !.by = "authenticate",
                            !.message = "Invalid token"]
             ELSE [q EXCEPT !.pc = "keyLookup", !.lookups = 1]
    /\ UNCHANGED <<clientVars, products, gate, jwks, cart>>

\* getSigningKey settles: authenticate verifies the token, sets req.user and
\* calls next(), or its catch block answers the error
AuthenticateResume_NextAnyway(found) ==
    /\ srv.pc = "keyLookup"
    /\ found => srv.kid \in KnownKids
    /\ ~FetchesKeySet(jwks, srv.kid) => found
    /\ LET outcome == IF found THEN JwtVerify(srv.alg, srv.sigValid, srv.expired)
                      ELSE "SigningKeyNotFoundError"
           q == [srv EXCEPT !.fetched = FetchesKeySet(jwks, srv.kid),
                            !.refetched = (/\ FetchesKeySet(jwks, srv.kid)
                                           /\ srv.kid \in jwks.missed)]
       IN  srv' =
             IF outcome \in {"ok", "TokenExpiredError"}
             THEN [q EXCEPT !.pc = "router", !.userSet = TRUE, !.nextCalled = TRUE]
             ELSE [q EXCEPT !.pc = "done", !.status = 401, !.by = "authenticate",
                              !.message = CatchMessage(outcome)]
    /\ jwks' = KeyLookup(jwks, srv.kid, found)
    /\ UNCHANGED <<clientVars, products, gate, cart>>

AuthenticateResume(found) ==
    /\ srv.pc = "keyLookup"
    /\ found => srv.kid \in KnownKids
    /\ ~FetchesKeySet(jwks, srv.kid) => found
    /\ LET outcome == IF found THEN JwtVerify(srv.alg, srv.sigValid, srv.expired)
                      ELSE "SigningKeyNotFoundError"
           q == [srv EXCEPT !.fetched = FetchesKeySet(jwks, srv.kid),
                            !.refetched = (/\ FetchesKeySet(jwks, srv.kid)
                                           /\ srv.kid \in jwks.missed)]
       IN  srv' =
             IF outcome = "ok"
             THEN [q EXCEPT !.pc = "router", !.userSet = TRUE, !.nextCalled = TRUE]
             ELSE [q EXCEPT !.pc = "done", !.status = 401, !.by = "authenticate",
                              !.message = CatchMessage(outcome)]
    /\ jwks' = KeyLookup(jwks, srv.kid, found)
    /\ UNCHANGED <<clientVars, products, gate, cart>>

\* a request to a mount without authenticate goes to the router as it came
RouterEnter(route, authHeader, token) ==
    /\ srv.pc = "idle"
    /\ ~MountAuthenticates(route)
    /\ token \in TokensOf(authHeader)
    /\ srv' = [Incoming(route, authHeader, token) EXCEPT !.pc = "router"]
    /\ UNCHANGED <<clientVars, products, gate, jwks, cart>>

\* the route's requireRole middleware, if it has one
RoleGate ==
    /\ srv.pc = "router"
    /\ LET d == IF RequiredRole(srv.route) = NoRole THEN Pass
                ELSE requireRole(RequiredRole(srv.route), ReqUser(srv))
       IN  srv' =
             IF d.status = 0
             THEN [srv EXCEPT !.pc = "handler"]
             ELSE [srv EXCEPT !.pc = "done", !.status = d.status,
                              !.message = d.message, !.by = "gate"]
    /\ UNCHANGED <<clientVars, products, gate, jwks, cart>>

\* the status the route's handler answers. valid: validationResult(req) is
\* empty; ext: "ok" or the code of the error the AWS call rejects with
HandlerStatus(s, valid, ext, exists) ==
    IF Validates(s.route) /\ ~valid THEN 400
    ELSE IF ReadsHeader(s.route) /\ s.authHeader = NoHeader THEN ErrorStatus(0)
    ELSE IF ext = "NotAuthorizedException"
    THEN (IF s.route \in AuthRoutes \ {"POST /api/auth/users"} THEN 401
          ELSE ErrorStatus(0))
    ELSE IF ext = "UsernameExistsException"
    THEN (IF s.route = "POST /api/auth/users" THEN 400 ELSE ErrorStatus(0))
    ELSE IF ext # "ok" THEN ErrorStatus(0)
    ELSE IF s.route \in {"PUT /api/products/:id", "DELETE /api/products/:id"}
            /\ ~exists
    THEN 404
    ELSE IF s.route \in {"POST /api/products", "POST /api/auth/users",
                         "POST /api/transactions"}
    THEN 201
    ELSE 200

\* the route's handler runs to its response; createProduct, updateProduct and
\* deleteProduct write the product table, createTransaction puts the
\* transaction. cashierId: the cashierId of the request body
Handler(valid, ext, id, data, cashierId) ==
    /\ srv.pc = "handler"
    /\ (srv.route = "POST /api/products" /\ valid /\ ext = "ok")
          => products[id] = NoProduct
    /\ cashierId # NoSub => srv.route = "POST /api/transactions"
    /\ LET status == HandlerStatus(srv, valid, ext, products[id] # NoProduct)
           item == TransactionOf([cashierId |-> cashierId], [sub |-> srv.sub])
       IN  /\ srv' = [srv EXCEPT
                        !.pc = "done", !.status = status,
                        !.by = "handler", !.ran = TRUE,
                        !.bodyCashierId = cashierId,
                        !.putCashierId =
                            IF srv.route = "POST /api/transactions" /\ status = 201
                            THEN item.cashierId ELSE NoSub]
           /\ products' =
                IF srv.route = "POST /api/products" /\ status = 201
                THEN [products EXCEPT ![id] = data]
                ELSE IF srv.route = "PUT /api/products/:id" /\ status = 200
                THEN [products EXCEPT ![id] = data]
                ELSE IF srv.route = "DELETE /api/products/:id" /\ status = 200
                THEN [products EXCEPT ![id] = NoProduct]
                ELSE products
    /\ UNCHANGED <<clientVars, gate, jwks, cart>>

\* the server turns to its next request
NextRequest ==
    /\ srv.pc = "done"
    /\ srv' = IdleSrv
    /\ UNCHANGED <<clientVars, products, gate, jwks, cart>>

AwsOutcomes == {"ok", "NotAuthorizedException", "UsernameExistsException", "error"}

NextServer ==
    \/ /\ srv.pc = "idle"
       /\ \E route \in Routes, authHeader \in AuthHeaders :
             \E token \in TokensOf(authHeader) :
                 AuthenticateStart(route, authHeader, token)
    \/ \E found \in BOOLEAN : AuthenticateResume(found)
    \/ /\ srv.pc = "idle"
       /\ \E route \in Routes, authHeader \in AuthHeaders :
             \E token \in TokensOf(authHeader) :
                 RouterEnter(route, authHeader, token)
    \/ RoleGate
    \/ \E valid \in BOOLEAN, ext \in AwsOutcomes, id \in ProductIds,
          data \in ProductData, cashierId \in Subjects \cup {NoSub} :
              Handler(valid, ext, id, data, cashierId)
    \/ NextRequest

\* the server starts with no browser session in the picture
InitServer == Init /\ API_URL = DocumentedBase /\ ~store.present

SpecServer == InitServer /\ [][NextServer]_vars

\* ------------------------------------------------- the authorization gates
\* the values req.user can have when a gate runs
Users == {NoUser} \cup {User(role) : role \in Roles \cup {NoRole}}

\* requireRole(requiredRole) runs on a request. keep: the evaluation
\* remembered in gate.prev stays, otherwise the last one replaces it
GateCheckRole(requiredRole, user, keep) ==
    /\ gate' = [cur  |-> [kind |-> "requireRole", roles |-> {requiredRole},
                          user |-> user,
                          status |-> requireRole(requiredRole, user).status],
                prev |-> IF keep THEN gate.prev ELSE gate.cur]
    /\ UNCHANGED <<clientVars, srv, products, jwks, cart>>

\* requireAnyRole(roles) runs on a request
GateCheckAnyRole(roles, user, keep) ==
    /\ gate' = [cur  |-> [kind |-> "requireAnyRole", roles |-> roles,
                          user |-> user,
                          status |-> requireAnyRole(roles, user).status],
                prev |-> IF keep THEN gate.prev ELSE gate.cur]
    /\ UNCHANGED <<clientVars, srv, products, jwks, cart>>

NextGate ==
    \/ \E requiredRole \in Roles, user \in Users, keep \in BOOLEAN :
          GateCheckRole(requiredRole, user, keep)
    \/ \E roles \in SUBSET Roles, user \in Users, keep \in BOOLEAN :
          GateCheckAnyRole(roles, user, keep)

SpecGate == Init /\ [][NextGate]_vars

\* ------------------------------------------------------------------ the cart
\* largest quantity of a cart entry
MaxQty == 3

\* the products on sale, and the quantities updateQuantity is called with
CartProducts == {"p1", "p2"}
Quantities == (0 - 1)..MaxQty

\* prevCart.find(item => item.productId === productId)
InCart(prevCart, productId) ==
    \E i \in DOMAIN prevCart : prevCart[i].productId = productId

addToCart_AlwaysAppend(prevCart, productId) ==
    Append(prevCart, [productId |-> productId, quantity |-> 1])

\* addToCart's state updater
addToCart(prevCart, productId) ==
    IF InCart(prevCart, productId)
    THEN [i \in DOMAIN prevCart |->
            IF prevCart[i].productId = productId
            THEN [prevCart[i] EXCEPT !.quantity = prevCart[i].quantity + 1]
            ELSE prevCart[i]]
    ELSE Append(prevCart, [productId |-> productId, quantity |-> 1])

\* removeFromCart's state updater
removeFromCart(prevCart, productId) ==
    LET Other(item) == item.productId # productId
    IN  SelectSeq(prevCart, Other)

\* updateQuantity: removeFromCart for a quantity <= 0, else its state updater
updateQuantity(prevCart, productId, quantity) ==
    IF quantity <= 0 THEN removeFromCart(prevCart, productId)
    ELSE [i \in DOMAIN prevCart |->
            IF prevCart[i].productId = productId
            THEN [prevCart[i] EXCEPT !.quantity = quantity]
            ELSE prevCart[i]]

AddToCart(productId) ==
    /\ \A i \in DOMAIN cart.items :
          cart.items[i].productId = productId => cart.items[i].quantity < MaxQty
    /\ cart' = [items |-> addToCart(cart.items, productId),
                last  |-> [op |-> "addToCart", productId |-> productId,
                           quantity |-> 0]]
    /\ UNCHANGED <<clientVars, srv, products, gate, jwks>>

UpdateQuantity(productId, quantity) ==
    /\ cart' = [items |-> updateQuantity(cart.items, productId, quantity),
                last  |-> [op |-> "updateQuantity", productId |-> productId,
                           quantity |-> quantity]]
    /\ UNCHANGED <<clientVars, srv, products, gate, jwks>>

RemoveFromCart(productId) ==
    /\ cart' = [items |-> removeFromCart(cart.items, productId),
                last  |-> [op |-> "removeFromCart", productId |-> productId,
                           quantity |-> 0]]
    /\ UNCHANGED <<clientVars, srv, products, gate, jwks>>

ClearCart ==
    /\ cart' = [items |-> << >>, last |-> [NoOp EXCEPT !.op = "clearCart"]]
    /\ UNCHANGED <<clientVars, srv, products, gate, jwks>>

NextCart ==
    \/ \E productId \in CartProducts : AddToCart(productId)
    \/ \E productId \in CartProducts, quantity \in Quantities :
          UpdateQuantity(productId, quantity)
    \/ \E productId \in CartProducts : RemoveFromCart(productId)
    \/ ClearCart

SpecCart == Init /\ [][NextCart]_vars

\* ------------------------------------------------------------------ claims
\* the calls whose first 401 arrived in the window opened by call l's refresh
Cohort(l) == {r \in Calls : req[r].leader = l}

RECURSIVE RefreshCallsOf(_)
\* the number of refresh calls the interceptor issued for the calls of S
RefreshCallsOf(S) ==
    IF S = {} THEN 0
    ELSE LET x == CHOOSE y \in S : TRUE
         IN  req[x].nRefresh + RefreshCallsOf(S \ {x})

\* C1: when two or more calls receive their 401 in one window (none in flight
\* when the first arrives), exactly one refresh call is issued for all of them
\* and every one of them is retried with the token set of that call.
C1_SingleRefreshForAll ==
    \A l \in Calls :
        Cardinality(Cohort(l)) >= 2 =>
            /\ RefreshCallsOf(Cohort(l)) = 1
            /\ \A r1, r2 \in Cohort(l) :
                   (req[r1].obs # 0 /\ req[r2].obs # 0) => req[r1].obs = req[r2].obs

\* C2: at most one refresh network call is in flight, counting the response
\* interceptor's refresh and AuthContext.refreshTokens.
C2_AtMostOneRefreshInFlight ==
    Cardinality(InterceptorRefreshing \cup CtxRefreshing) <= 1

\* C3: an original call triggers at most one refresh and is re-issued at most
\* once; a re-issued call never waits for a second refresh, and its 401 is
\* rejected with that 401.
C3_RetryOnce ==
    \A r \in Calls :
        /\ req[r].nRefresh <= 1
        /\ req[r].nSend <= 2
        /\ req[r].st = "refreshing" => req[r].nSend = 1
        /\ (req[r].st = "rejected" /\ req[r].nSend = 2) => req[r].errKind = "original"

\* C3 witness: a call was refreshed once, re-issued, answered 401 again and
\* rejected
C3_Witness ==
    \E r \in Calls :
        /\ req[r].st = "rejected"
        /\ req[r].nSend = 2
        /\ req[r].nRefresh = 1
        /\ req[r].errStatus = 401
        /\ req[r].errKind = "original"

\* the calls that wrote a triple to the store: a refreshed call, a resolved
\* login or a resolved refreshTokens
Writers ==
    {r \in Calls : \/ req[r].rres = "ok"
                   \/ (req[r].kind \in {"login", "refresh"} /\ req[r].st = "resolved")}

\* C4: the calls that waited in one refresh window observe one outcome: all
\* fail, or all are retried with the same new token set; and after a failed
\* refresh that no write followed, the store is absent.
C4_SameOutcome ==
    /\ \A r1, r2 \in Calls :
          (/\ req[r1].leader # 0
           /\ req[r1].leader = req[r2].leader
           /\ req[r1].rres # "none"
           /\ req[r2].rres # "none")
          => (req[r1].rres = req[r2].rres /\ req[r1].obs = req[r2].obs)
    /\ ((\E r \in Calls : req[r].rres = "fail") /\ Writers = {}) => ~store.present

\* C5 as stated: a call whose refresh failed is rejected with its original
\* 401 error.
C5_RejectedWithOriginal401 ==
    \A r \in Calls :
        (req[r].st = "rejected" /\ req[r].rres = "fail")
        => (req[r].errKind = "original" /\ req[r].errStatus = 401)

\* C5 amended: in the step in which the refresh triggered by a call's first 401
\* fails, the call is rejected with the error of the refresh call and the
\* store is cleared.
C5_RejectedWithRefreshError ==
    [][\A r \in Calls :
          (req[r].st = "refreshing" /\ req'[r].rres = "fail")
          => /\ req'[r].st = "rejected"
             /\ req'[r].errKind = "refresh"
             /\ ~store'.present]_vars

\* C5 witness: a call was rejected with the error of its failed refresh and
\* the store is absent
C5_Witness ==
    \E r \in Calls :
        /\ req[r].st = "rejected"
        /\ req[r].rres = "fail"
        /\ req[r].errKind = "refresh"
        /\ req[r].nRefresh = 1
        /\ ~store.present

\* C6: while the store holds what a successful refresh without rotation wrote,
\* it holds that refresh's access and ID token and the refresh token that was
\* stored when the refresh call was issued.
C6_RefreshKeepsStoredRefreshToken ==
    \A r \in Calls :
        /\ (/\ req[r].rres = "ok"
            /\ ~req[r].rotated
            /\ req[r].nSend = 2 /\ req[r].st = "sent"
            /\ store.present /\ store.accessToken = req[r].obs)
           => (store.idToken = req[r].obs
               /\ store.refreshToken = req[r].snap.refreshToken)
        /\ (/\ req[r].kind = "refresh"
            /\ req[r].st = "resolved"
            /\ ~req[r].rotated
            /\ store.present /\ store.accessToken = req[r].minted)
           => (store.idToken = req[r].minted
               /\ store.refreshToken = req[r].storeAtSend.refreshToken)

\* C7: while the store holds what a successful refresh with rotation wrote,
\* its refresh token is the rotated one.
C7_RotatedTokenStored ==
    \A r \in Calls :
        /\ (/\ req[r].rres = "ok" /\ req[r].nSend = 2 /\ req[r].st = "sent"
            /\ req[r].rotated
            /\ store.present /\ store.accessToken = req[r].obs)
           => store.refreshToken = AuthResult(req[r].obs, TRUE).RefreshToken
        /\ (/\ req[r].kind = "refresh" /\ req[r].st = "resolved"
            /\ req[r].rotated
            /\ store.present /\ store.accessToken = req[r].minted)
           => store.refreshToken = AuthResult(req[r].minted, TRUE).RefreshToken

\* C8: the persisted store is absent or holds access, ID and refresh token.
C8_FullOrAbsent ==
    IF store.present THEN FullTriple(store) ELSE store = NoTokens

\* C8 witness: the store holds the triple a refresh wrote after a login
C8_Witness ==
    /\ store.present
    /\ \E r1, r2 \in Calls :
          /\ req[r1].kind = "login" /\ req[r1].st = "resolved"
          /\ req[r2].rres = "ok" /\ store.accessToken = req[r2].obs
          /\ store.refreshToken = req[r1].minted

\* C9: a call sent while the store holds an access token carries that token;
\* the retry after a successful refresh carries the new access token and not
\* the rejected one.
C9_BearerIsStoredToken ==
    \A r \in Calls :
        /\ (req[r].nSend >= 1 /\ req[r].storeAtSend.present)
           => req[r].hdr = req[r].storeAtSend.accessToken
        /\ (req[r].rres = "ok" /\ req[r].nSend = 2)
           => (req[r].hdr = req[r].obs /\ req[r].hdr # req[r].rejTok)

\* C9 witness: a call was sent with the stored token after the interceptor
\* refreshed the store for another call
C9_Witness ==
    \E r1, r2 \in Calls :
        /\ req[r1].rres = "ok" /\ req[r1].nSend = 2
        /\ req[r1].hdr = req[r1].obs
        /\ r2 # r1
        /\ req[r2].nSend = 1
        /\ req[r2].storeAtSend.accessToken = req[r1].obs
        /\ req[r2].hdr = req[r1].obs

\* C10: a request whose token declares an algorithm other than RS256 is
\* rejected without a call of getSigningKey.
C10_NoKeyLookupForOtherAlgorithm ==
    (/\ srv.pc # "idle"
     /\ srv.header = "bearer"
     /\ srv.decodable
     /\ srv.alg \notin AllowedAlgorithms)
    => srv.lookups = 0

\* authenticate has run on the request and finished
AuthenticateDone ==
    MountAuthenticates(srv.route) /\ srv.pc \notin {"idle", "keyLookup"}

\* C11: a token whose expiry is in the past fails verification with 'Token
\* expired', whether or not its signature is valid.
C11_ExpiredFailsAsExpired ==
    (/\ AuthenticateDone
     /\ srv.header = "bearer"
     /\ srv.decodable
     /\ srv.expired)
    => (srv.by = "authenticate" /\ srv.message = "Token expired")

\* C12: for a correctly signed, unexpired token whose issuer or audience is
\* not the configured one, authenticate answers an error and neither sets
\* req.user nor calls next().
C12_IssuerMismatchRejected ==
    (/\ AuthenticateDone
     /\ srv.header = "bearer"
     /\ srv.decodable
     /\ srv.sigValid
     /\ ~srv.expired
     /\ ~srv.issMatch)
    => (srv.by = "authenticate" /\ ~srv.userSet /\ ~srv.nextCalled)

\* C13: a gate calls next() exactly when req.user carries a role claim and the
\* claim is the required role (requireRole) or one of the required roles
\* (requireAnyRole); otherwise it answers a refusal.
C13_AllowIffRoleMatches ==
    gate.cur.kind # "none" =>
        /\ (gate.cur.status = 0) <=>
              (/\ gate.cur.user.present
               /\ gate.cur.user.role # NoRole
               /\ gate.cur.user.role \in gate.cur.roles)
        /\ gate.cur.status \in {0, 401, 403}

\* C13 witness: requireAnyRole let a member of its set pass after requireRole
\* refused a role other than the required one
C13_Witness ==
    /\ gate.cur.kind = "requireAnyRole"
    /\ Cardinality(gate.cur.roles) = 2
    /\ gate.cur.status = 0
    /\ gate.prev.kind = "requireRole"
    /\ gate.prev.user.role \in Roles
    /\ gate.prev.status = 403

C15_StatusByFailureKind ==
    /\ (AuthenticateDone /\ ~srv.nextCalled)
          => (srv.by = "authenticate" /\ srv.status = 401)
    /\ srv.by = "authenticate" => srv.status = 401
    /\ (srv.by = "gate" /\ srv.userSet) => srv.status = 403

\* C15 witness: the gate refused the verified claims of a cashier with 403
C15_Witness ==
    /\ srv.pc = "done"
    /\ srv.by = "gate"
    /\ srv.userSet
    /\ srv.role = "cashier"
    /\ srv.status = 403

\* C16: authenticate either sets req.user and calls next(), or answers an
\* error, never both and never neither; it calls next() only for a token that
\* jwt.verify accepted.
C16_NextOrResponse ==
    (MountAuthenticates(srv.route) /\ srv.pc # "idle") =>
        /\ srv.pc # "keyLookup" => (srv.nextCalled <=> srv.by # "authenticate")
        /\ srv.pc = "keyLookup" => (~srv.nextCalled /\ srv.by = "")
        /\ srv.nextCalled <=> srv.userSet
        /\ srv.nextCalled =>
              (/\ srv.lookups = 1
               /\ srv.kid \in KnownKids
               /\ JwtVerify(srv.alg, srv.sigValid, srv.expired) = "ok")

\* C16 witness: authenticate has set req.user and called next()
C16_Witness ==
    /\ MountAuthenticates(srv.route)
    /\ srv.pc = "router"
    /\ srv.userSet
    /\ srv.nextCalled

\* C17: authenticate answers a request without Authorization header and a
\* request whose header is not `Bearer' and one more part with two messages of
\* their own, before any call of getSigningKey or jwt.verify.
C17_HeaderRejections ==
    (MountAuthenticates(srv.route) /\ srv.pc # "idle") =>
        /\ srv.authHeader = NoHeader =>
              (/\ srv.pc = "done" /\ srv.by = "authenticate" /\ srv.status = 401
               /\ srv.message = "No authorization header provided"
               /\ srv.lookups = 0 /\ ~srv.userSet)
        /\ (/\ srv.authHeader # NoHeader
            /\ (Len(srv.authHeader) # 2 \/ srv.authHeader[1] # "Bearer")) =>
              (/\ srv.pc = "done" /\ srv.by = "authenticate" /\ srv.status = 401
               /\ srv.message = "Authorization header format must be Bearer token"
               /\ srv.lookups = 0 /\ ~srv.userSet)
        /\ (Len(srv.authHeader) = 2 /\ srv.authHeader[1] = "Bearer") =>
              srv.message \notin {"No authorization header provided",
                                  "Authorization header format must be Bearer token"}

\* C17 witness: a header of another scheme was answered with the format error
C17_Witness ==
    /\ MountAuthenticates(srv.route)
    /\ srv.pc = "done"
    /\ srv.authHeader = <<"Basic", "token">>
    /\ srv.message = "Authorization header format must be Bearer token"

\* C18: a request without Authorization header to a route declared Private is
\* answered 401 and its handler does not run.
C18_PrivateRoutesReject ==
    (/\ srv.pc = "done"
     /\ Private(srv.route)
     /\ srv.authHeader = NoHeader)
    => (srv.status = 401 /\ ~srv.ran)

\* C19: a request to POST /api/auth/users with a verifiable token of role
\* admin passes the gate and reaches the handler that creates the user.
C19_AdminReachesUserCreation ==
    (/\ srv.pc = "done"
     /\ srv.route = "POST /api/auth/users"
     /\ srv.header = "bearer"
     /\ srv.decodable
     /\ srv.kid \in KnownKids
     /\ JwtVerify(srv.alg, srv.sigValid, srv.expired) = "ok"
     /\ srv.issMatch
     /\ srv.role = "admin")
    => srv.ran

\* the routes that write the product table
ProductWrites ==
    {"POST /api/products", "PUT /api/products/:id", "DELETE /api/products/:id"}

C21_OneFetchPerUnknownKid ==
    (/\ AuthenticateDone
     /\ srv.header = "bearer"
     /\ srv.decodable
     /\ srv.kid \notin KnownKids)
    => (/\ srv.by = "authenticate" /\ srv.status = 401 /\ ~srv.nextCalled
        /\ ~srv.refetched)

\* the network delivers the response of call r, or of the refresh made for it
Deliver(r) ==
    \/ \E rot \in BOOLEAN : ResponseOk(r, rot)
    \/ \E status \in {401, 404, 500} : ResponseError(r, status)
    \/ \E rot \in BOOLEAN : RefreshSuccess(r, rot)
    \/ \E status \in {401, 404, 500} : RefreshFail(r, status)

\* the client under fair delivery of the responses
SpecFair == Spec /\ \A r \in Calls : WF_vars(Deliver(r))

\* C22: no refresh is started while one is in flight, a started refresh ends
\* only by its success (store written) or its failure (store cleared), and
\* under fair delivery every refresh ends and every call answered 401 settles.
C22_RefreshRunsToCompletion ==
    /\ [][\A r \in Calls :
            /\ (\/ (req[r].st # "refreshing" /\ req'[r].st = "refreshing")
                \/ (req[r].kind = "none" /\ req'[r].kind = "refresh"))
                  => InterceptorRefreshing \cup CtxRefreshing = {}
            /\ (req[r].st = "refreshing" /\ req'[r].st # "refreshing")
                  => \/ (req'[r].rres = "ok" /\ store'.present)
                     \/ (req'[r].rres = "fail" /\ ~store'.present)]_vars
    /\ \A r \in Calls :
          /\ (req[r].st = "refreshing") ~> (req[r].rres \in {"ok", "fail"})
          /\ (req[r].retry /\ req[r].st \in {"sent", "refreshing"})
                ~> (req[r].st \in {"resolved", "rejected"})

\* C24: once logout has cleared the store, the React state and the default
\* header, only a login that succeeds writes tokens to the store again.
C24_AbsentAfterLogout ==
    [][(/\ ~store.present
        /\ ~ctxTokens.present
        /\ defaultAuth = 0
        /\ store'.present)
       => \E r \in Calls : /\ req[r].kind = "login"
                           /\ req[r].st = "sent"
                           /\ req'[r].st = "resolved"]_vars

\* C25: a refresh that completes after a login or another refresh stored a
\* triple with a newer refresh token leaves that refresh token in the store.
C25_NoStaleOverwrite ==
    [][\A r \in Calls :
          /\ (/\ req[r].st = "refreshing"
              /\ req'[r].rres = "ok"
              /\ store.present
              /\ store.refreshToken # req[r].snap.refreshToken)
             => store'.refreshToken = store.refreshToken
          /\ (/\ req[r].kind = "refresh"
              /\ req[r].st = "sent"
              /\ req'[r].st = "resolved"
              /\ store.present
              /\ store.refreshToken # req[r].closure.refreshToken)
             => store'.refreshToken = store.refreshToken]_vars

\* C26: a refresh call that fails starts no refresh call: the call of
\* refreshTokens is never refreshed or re-issued, and a call whose interceptor
\* refresh failed is rejected after that one refresh.
C26_FailedRefreshIsTerminal ==
    \A r \in Calls :
        /\ req[r].kind = "refresh" => (req[r].nRefresh = 0 /\ req[r].nSend <= 1)
        /\ req[r].rres = "fail" => (req[r].st = "rejected" /\ req[r].nRefresh = 1)

\* C27: a 401 that arrives while the store is absent starts no refresh, leaves
\* the store absent, and the call is rejected with that 401 without being
\* re-issued.
C27_NoRefreshWithoutStore ==
    [][\A r \in Calls :
          (req[r].st = "sent" /\ ~store.present) =>
              /\ req'[r].st # "refreshing"
              /\ req'[r].errStatus = 401 =>
                    (/\ req'[r].st = "rejected"
                     /\ req'[r].errKind = "original"
                     /\ req'[r].nRefresh = req[r].nRefresh
                     /\ req'[r].nSend = req[r].nSend
                     /\ ~store'.present)]_vars

\* C27 witness: a call sent once was answered 401 with the store absent and
\* rejected with it; no refresh was made for it
C27_Witness ==
    \E r \in Calls :
        /\ req[r].st = "rejected"
        /\ req[r].errStatus = 401
        /\ req[r].errKind = "original"
        /\ req[r].retry
        /\ req[r].nRefresh = 0
        /\ req[r].nSend = 1
        /\ ~req[r].storeAtSend.present
        /\ ~store.present

\* C28: a call sent while the store is absent carries no Authorization header.
C28_NoHeaderWithoutStore ==
    \A r \in Calls :
        (req[r].kind # "none" /\ ~req[r].storeAtSend.present) => req[r].hdr = 0

\* C29: with the documented base URL the interceptor's refresh call reaches
\* POST /api/auth/refresh: it is never answered 404.
C29_RefreshReachesHandler ==
    \A r \in Calls :
        (API_URL = DocumentedBase /\ req[r].rres = "fail")
        => req[r].errStatus # 404

\* C23: the cashierId put with a created transaction is the sub of the token
\* authenticate verified for the request, whatever cashierId the body has.
C23_CashierIsSubject ==
    /\ (srv.route = "POST /api/transactions" /\ srv.status = 201)
          => (srv.userSet /\ srv.putCashierId = srv.sub)
    /\ srv.putCashierId # NoSub
          => (/\ srv.route = "POST /api/transactions"
              /\ srv.userSet
              /\ srv.putCashierId = srv.sub)

\* C23 witness: a transaction was created for subject u1 although the body
\* named u2
C23_Witness ==
    /\ srv.pc = "done"
    /\ srv.route = "POST /api/transactions"
    /\ srv.status = 201
    /\ srv.sub = "u1"
    /\ srv.bodyCashierId = "u2"
    /\ srv.putCashierId = "u1"

\* the entries of the cart for a product
EntriesOf(items, productId) ==
    {i \in DOMAIN items : items[i].productId = productId}

\* C30: after every cart operation each product has at most one entry and
\* every entry has a quantity of at least 1; addToCart of a product in the
\* cart adds one to its quantity and no entry; updateQuantity with a quantity
\* <= 0 removes the product's entry.
C30_CartEntries ==
    [][cart' # cart =>
        /\ \A productId \in CartProducts :
              Cardinality(EntriesOf(cart'.items, productId)) <= 1
        /\ \A i \in DOMAIN cart'.items : cart'.items[i].quantity >= 1
        /\ (cart'.last.op = "addToCart"
            /\ InCart(cart.items, cart'.last.productId)) =>
              /\ Len(cart'.items) = Len(cart.items)
              /\ \A i \in DOMAIN cart.items :
                    cart'.items[i].quantity =
                        IF cart.items[i].productId = cart'.last.productId
                        THEN cart.items[i].quantity + 1
                        ELSE cart.items[i].quantity
        /\ (cart'.last.op = "updateQuantity" /\ cart'.last.quantity <= 0) =>
              EntriesOf(cart'.items, cart'.last.productId) = {}]_vars

\* C30 witness: addToCart of a product in a cart of two entries raised its
\* quantity to 2
C30_Witness ==
    /\ Len(cart.items) = 2
    /\ cart.last.op = "addToCart"
    /\ \E i \in DOMAIN cart.items :
          /\ cart.items[i].productId = cart.last.productId
          /\ cart.items[i].quantity = 2
====
